---- MODULE Spec2Model ----
(***************************************************************************)
(* Page-level layout grouping of src/utils/parser_extractors.py and        *)
(* src/utils/parser_utils.py: figure grouping (extract_image_blocks),      *)
(* table extraction (extract_tables_for_page) and the caption-anchored     *)
(* search areas (_areas_from_caption_bbox).                                *)
(*                                                                         *)
(* Bounding boxes are tuples <<x0, y0, x1, y1>> with y growing downwards.  *)
(* Text (a Python str) is a tuple of Unicode code points.  An absent value *)
(* (Python None) is the empty tuple.                                       *)
(***************************************************************************)
EXTENDS Integers, Sequences, FiniteSets, TLC

VARIABLES
    \* ---- extract_image_blocks ----
    pdict,            \* [imgs: type-1 blocks in scan order, texts: type-0 blocks in scan order]
    raster_fallback,  \* keyword argument
    layout_imgs,      \* collected layout image blocks
    captions,         \* detected figure captions
    assigned,         \* set of indices of layout_imgs already grouped
    figures,          \* emitted figures, parts are indices into layout_imgs
    leftovers,        \* indices left after the caption loop
    ci,               \* position of the caption loop
    li,               \* position of the leftover loop
    raster_calls,     \* every _raster_crop invocation: [rect, ok, out]
    fstats,           \* returned stats
    pc,               \* position inside extract_image_blocks
    \* ---- extract_tables_for_page ----
    page_texts,       \* argument: text blocks of the page
    page_dims,        \* <<page_w, page_h>> or None when page is None
    save_csv,         \* keyword argument
    attempts,         \* ordered attempt list
    ai,               \* index of the next attempt
    tables,           \* returned TableRecords
    stats,            \* returned stats
    engine_calls,     \* attempt index of every camelot.read_pdf invocation, in order
    ret_call,         \* what the last camelot.read_pdf call did, noted when the loop is left
    csv_calls,        \* every to_csv invocation: [index, ok]
    tpc,              \* position inside extract_tables_for_page
    \* ---- _areas_from_caption_bbox ----
    a_in,             \* [cbx, page_w, page_h, pad]
    a_out,            \* returned list of areas
    apc

figVars  == <<pdict, raster_fallback, layout_imgs, captions, assigned, figures,
              leftovers, ci, li, raster_calls, fstats, pc>>
tabVars  == <<page_texts, page_dims, save_csv, attempts, ai, tables, stats,
              engine_calls, ret_call, csv_calls, tpc>>
areaVars == <<a_in, a_out, apc>>
vars     == <<figVars, tabVars, areaVars>>

None == <<>>

Max(a, b) == IF a >= b THEN a ELSE b
Min(a, b) == IF a <= b THEN a ELSE b
Abs(a)    == IF a < 0 THEN 0 - a ELSE a

\* Set of sequences over S of length at most n.
SeqUpTo(S, n) == UNION {[1..k -> S] : k \in 0..n}

-----------------------------------------------------------------------------
(* Caption patterns: ^(Figure|Fig\.?)\s*\d+[\.:]?  and                      *)
(*                   ^(Table|Tab\.?)\s*\d+[\.:]? , both with re.I           *)

\* Union of the closed integer ranges <<lo, hi>> of R.
CodePoints(R) == UNION {r[1]..r[2] : r \in R}

\* \d of a str pattern: the Unicode decimal digits (category Nd).
DecimalRanges ==
    { <<48, 57>>, <<1632, 1641>>, <<1776, 1785>>, <<1984, 1993>>,
      <<2406, 2415>>, <<2534, 2543>>, <<2662, 2671>>, <<2790, 2799>>,
      <<2918, 2927>>, <<3046, 3055>>, <<3174, 3183>>, <<3302, 3311>>,
      <<3430, 3439>>, <<3558, 3567>>, <<3664, 3673>>, <<3792, 3801>>,
      <<3872, 3881>>, <<4160, 4169>>, <<4240, 4249>>, <<6112, 6121>>,
      <<6160, 6169>>, <<6470, 6479>>, <<6608, 6617>>, <<6784, 6793>>,
      <<6800, 6809>>, <<6992, 7001>>, <<7088, 7097>>, <<7232, 7241>>,
      <<7248, 7257>>, <<42528, 42537>>, <<43216, 43225>>, <<43264, 43273>>,
      <<43472, 43481>>, <<43504, 43513>>, <<43600, 43609>>, <<44016, 44025>>,
      <<65296, 65305>>, <<66720, 66729>>, <<68912, 68921>>, <<69734, 69743>>,
      <<69872, 69881>>, <<69942, 69951>>, <<70096, 70105>>, <<70384, 70393>>,
      <<70736, 70745>>, <<70864, 70873>>, <<71248, 71257>>, <<71360, 71369>>,
      <<71472, 71481>>, <<71904, 71913>>, <<72016, 72025>>, <<72784, 72793>>,
      <<73040, 73049>>, <<73120, 73129>>, <<92768, 92777>>, <<92864, 92873>>,
      <<93008, 93017>>, <<120782, 120831>>, <<123200, 123209>>,
      <<123632, 123641>>, <<125264, 125273>>, <<130032, 130041>> }

Digits == CodePoints(DecimalRanges)

\* Characters for which str.isdigit() holds and str.isdecimal() does not
\* (superscripts, circled digits, ...).
DigitOnlyRanges ==
    { <<178, 179>>, <<185, 185>>, <<4969, 4977>>, <<6618, 6618>>,
      <<8304, 8304>>, <<8308, 8313>>, <<8320, 8329>>, <<9312, 9320>>,
      <<9332, 9340>>, <<9352, 9360>>, <<9450, 9450>>, <<9461, 9469>>,
      <<9471, 9471>>, <<10102, 10110>>, <<10112, 10120>>, <<10122, 10130>>,
      <<68160, 68163>>, <<69216, 69224>>, <<69714, 69722>>,
      <<127232, 127242>> }

\* ch.isdigit()
IsDigitChars == Digits \cup CodePoints(DigitOnlyRanges)

\* \s of a str pattern, which is also what str.strip() removes.
WhiteSpaceRanges ==
    { <<9, 13>>, <<28, 32>>, <<133, 133>>, <<160, 160>>, <<5760, 5760>>,
      <<8192, 8202>>, <<8232, 8233>>, <<8239, 8239>>, <<8287, 8287>>,
      <<12288, 12288>> }

WhiteSpace == CodePoints(WhiteSpaceRanges)

\* re.I: the characters a literal pattern character p matches.  A letter
\* matches both of its cases; i, k and s have further case equivalents
\* (U+0130, U+0131; U+212A; U+017F).  Every other ASCII character matches
\* itself only.
IgnoreCase(p) ==
    LET lo == IF p \in 65..90 THEN p + 32 ELSE p
    IN  IF lo \in 97..122
        THEN {lo - 32, lo} \cup (CASE lo = 105 -> {304, 305}
                                   [] lo = 107 -> {8490}
                                   [] lo = 115 -> {383}
                                   [] OTHER    -> {})
        ELSE {p}

Drop(s, n) == SubSeq(s, n + 1, Len(s))

\* s starts with the literal w, ignoring case.
StartsWithCI(s, w) ==
    /\ Len(s) >= Len(w)
    /\ \A k \in 1..Len(w) : s[k] \in IgnoreCase(w[k])

RECURSIVE SkipSpace(_)
SkipSpace(s) ==
    IF s # <<>> /\ Head(s) \in WhiteSpace THEN SkipSpace(Tail(s)) ELSE s

\* re.match of  ^(w1|w2|...)\s*\d+[\.:]?  : some alternative is a prefix and
\* the first character after the following white space is a digit.
CapMatch(words, s) ==
    \E w \in words :
        /\ StartsWithCI(s, w)
        /\ LET rest == SkipSpace(Drop(s, Len(w)))
           IN  rest # <<>> /\ Head(rest) \in Digits

\* "Figure", "Fig.", "Fig"
FigWords == {<<70, 105, 103, 117, 114, 101>>, <<70, 105, 103, 46>>, <<70, 105, 103>>}
\* "Table", "Tab.", "Tab"
TabWords == {<<84, 97, 98, 108, 101>>, <<84, 97, 98, 46>>, <<84, 97, 98>>}

_CAP_RE(s)   == CapMatch(FigWords, s)
CAPTION_RE(s) == CapMatch(TabWords, s)

RECURSIVE RStrip(_)
RStrip(s) ==
    IF s # <<>> /\ s[Len(s)] \in WhiteSpace THEN RStrip(SubSeq(s, 1, Len(s) - 1)) ELSE s

Strip(s) == RStrip(SkipSpace(s))

-----------------------------------------------------------------------------
(* Geometry helpers.                                                        *)

_w(bb) == Max(0, bb[3] - bb[1])
_h(bb) == Max(0, bb[4] - bb[2])


\* page.rect of the page handed to extract_image_blocks.
PageW == 4
PageH == 5
PageRect == <<0, 0, PageW, PageH>>

\* Keyword arguments of extract_image_blocks, in the model's length unit.
min_img_area == 2
max_v_gap    == 1
\* min_cap_overlap = 0.35 and width_tol = 0.30, in hundredths.
MinCapOverlapPct == 35
WidthTolPct      == 30
\* cap_w = max(1e-6, _w(...)): widths are compared in millionths.
Micro == 1000000

\* _safe_rect pad = 0.5: the returned rectangle is in half units.
HalfPad == 1

IsEmptyRect(r) == r[1] >= r[3] \/ r[2] >= r[4]

\* fitz.Rect(bbox) & page.rect: an empty operand is the result (the right
\* one first), otherwise the common rectangle.
Intersect(bb, pr) ==
    IF IsEmptyRect(pr) THEN pr
    ELSE IF IsEmptyRect(bb) THEN bb
    ELSE <<Max(bb[1], pr[1]), Max(bb[2], pr[2]), Min(bb[3], pr[3]), Min(bb[4], pr[4])>>

\* _safe_rect without the emptiness test
_safe_rect_unchecked(pr, bbox) ==
    LET r == Intersect(bbox, pr)
    IN  <<Max(2 * pr[1], 2 * r[1] - HalfPad),
          Max(2 * pr[2], 2 * r[2] - HalfPad),
          Min(2 * pr[3], 2 * r[3] + HalfPad),
          Min(2 * pr[4], 2 * r[4] + HalfPad)>>

\* _safe_rect(page, bbox): None, or the padded intersection in half units.
_safe_rect(pr, bbox) ==
    LET r == Intersect(bbox, pr)
    IN  IF IsEmptyRect(r) \/ _w(r) <= 0 \/ _h(r) <= 0
        THEN None
        ELSE <<Max(2 * pr[1], 2 * r[1] - HalfPad),
               Max(2 * pr[2], 2 * r[2] - HalfPad),
               Min(2 * pr[3], 2 * r[3] + HalfPad),
               Min(2 * pr[4], 2 * r[4] + HalfPad)>>

-----------------------------------------------------------------------------
(* extract_image_blocks                                                     *)

\* "Figure 1:"
Txt_Figure1 == <<70, 105, 103, 117, 114, 101, 32, 49, 58>>
\* U+00A0, "f", U+0131 (dotless i), "g.", U+0663 (Arabic-Indic three), "\r"
Txt_fig2    == <<160, 102, 305, 103, 46, 1635, 13>>
\* "Figures"
Txt_Figures == <<70, 105, 103, 117, 114, 101, 115>>

\* Type-1 (image) blocks a page may hold: bbox and the exported bitmap path
\* of the block's xref (None when the xref has no exported bitmap).
ImgBlockPalette ==
    { [bbox |-> <<0, 0, 4, 2>>, image_path |-> None],
      [bbox |-> <<0, 0, 2, 2>>, image_path |-> <<"x", 1>>],
      [bbox |-> <<2, 0, 4, 2>>, image_path |-> <<"x", 2>>],
      [bbox |-> <<2, 0, 4, 2>>, image_path |-> None],
      [bbox |-> <<5, 0, 7, 2>>, image_path |-> None],
      [bbox |-> <<2, 0, 5, 2>>, image_path |-> None],
      [bbox |-> <<0, 0, 1, 1>>, image_path |-> None] }

\* Type-0 (text) blocks a page may hold: joined span text and bbox.
TextBlockPalette ==
    { [text |-> Txt_Figure1, bbox |-> <<0, 2, 4, 3>>],
      [text |-> Txt_fig2,    bbox |-> <<0, 3, 4, 4>>],
      [text |-> Txt_Figure1, bbox |-> <<1, 2, 3, 3>>],
      [text |-> Txt_fig2,    bbox |-> <<0, 4, 4, 5>>],
      [text |-> Txt_Figure1, bbox |-> <<0, 1, 4, 2>>],
      [text |-> Txt_Figures, bbox |-> <<0, 2, 4, 3>>],
      [text |-> Txt_fig2,    bbox |-> <<2, 2, 2, 3>>] }

MaxImgBlocks  == 2
MaxTextBlocks == 2

\* step 1: layout image blocks that pass the minimum-area filter
CollectLayoutImgs(imgs) ==
    LET Keep(b) == ~(_w(b.bbox) * _h(b.bbox) < min_img_area)
    IN  SelectSeq(imgs, Keep)

\* step 2: text blocks whose stripped text matches _CAP_RE
CollectCaptions(texts) ==
    LET Stripped(t) == [text |-> Strip(t.text), bbox |-> t.bbox]
        IsCap(t)  == _CAP_RE(Strip(t.text))
        caps      == SelectSeq(texts, IsCap)
    IN  [k \in 1..Len(caps) |-> Stripped(caps[k])]

cap_w(cap) == Max(1, _w(cap.bbox) * Micro)

\* must end above caption top
EndsAbove(ib, cap) == ~(ib.bbox[4] > cap.bbox[2])

\* sufficient horizontal overlap with caption width
Overlap(ib, cap) ==
    Max(0, Min(ib.bbox[3], cap.bbox[3]) - Max(ib.bbox[1], cap.bbox[1]))
OverlapOk(ib, cap) ==
    ~(Overlap(ib, cap) * Micro * 100 < MinCapOverlapPct * cap_w(cap))

\* vertical proximity
dy(ib, cap) == cap.bbox[2] - ib.bbox[4]
\* the proximity test without the upper limit max_v_gap
VGapOk_unbounded(ib, cap) == ~(dy(ib, cap) < 0)
VGapOk(ib, cap) == ~(dy(ib, cap) < 0 \/ dy(ib, cap) > max_v_gap)

\* width similarity
WidthOk(ib, cap) ==
    ~(Abs(_w(ib.bbox) * Micro - cap_w(cap)) * 100 > WidthTolPct * cap_w(cap))

Qualifies(ib, cap) ==
    EndsAbove(ib, cap) /\ OverlapOk(ib, cap) /\ VGapOk(ib, cap) /\ WidthOk(ib, cap)

RECURSIVE CandFrom(_, _, _, _)
CandFrom(idx, cap, imgs, asg) ==
    IF idx > Len(imgs) THEN <<>>
    ELSE IF idx \notin asg /\ Qualifies(imgs[idx], cap)
         THEN <<idx>> \o CandFrom(idx + 1, cap, imgs, asg)
         ELSE CandFrom(idx + 1, cap, imgs, asg)

\* cand_idxs without the "if idx in assigned: continue" test
cand_idxs_reassigning(cap, imgs, asg) == CandFrom(1, cap, imgs, {})

\* cand_idxs of one caption
cand_idxs(cap, imgs, asg) == CandFrom(1, cap, imgs, asg)

RECURSIVE UnionFrom(_, _, _)
UnionFrom(u, cand, imgs) ==
    IF cand = <<>> THEN u
    ELSE LET b == imgs[Head(cand)].bbox
         IN  UnionFrom(<<Min(u[1], b[1]), Min(u[2], b[2]), Max(u[3], b[3]), Max(u[4], b[4])>>,
                       Tail(cand), imgs)

union_bbox(cand, imgs) == UnionFrom(imgs[Head(cand)].bbox, Tail(cand), imgs)

RECURSIVE FirstPath(_, _)
FirstPath(cand, imgs) ==
    IF cand = <<>> THEN None
    ELSE IF imgs[Head(cand)].image_path # None THEN imgs[Head(cand)].image_path
         ELSE FirstPath(Tail(cand), imgs)

RECURSIVE LastPath(_, _)
LastPath(cand, imgs) ==
    IF cand = <<>> THEN None
    ELSE IF imgs[cand[Len(cand)]].image_path # None THEN imgs[cand[Len(cand)]].image_path
         ELSE LastPath(SubSeq(cand, 1, Len(cand) - 1), imgs)

\* rep_path without the break: the last part with an exported bitmap wins
rep_path_last(cand, imgs) == LastPath(cand, imgs)

\* pick a representative path: the exported bitmap of the first part that has one
rep_path(cand, imgs) == FirstPath(cand, imgs)

\* The raster fallback shared by the caption loop and the leftover loop:
\* the resulting path and the _raster_crop calls made (rasterOk is the
\* outcome of _raster_crop, which may raise).
RasterFallback(path, bbox, outPath, rasterOk) ==
    IF path = None /\ raster_fallback
    THEN LET rect == _safe_rect(PageRect, bbox)
         IN  IF rect # None
             THEN [path  |-> IF rasterOk THEN outPath ELSE None,
                   calls |-> <<[rect |-> rect, ok |-> rasterOk, out |-> outPath]>>]
             ELSE [path |-> None, calls |-> <<>>]
    ELSE [path |-> path, calls |-> <<>>]

FigInit ==
    /\ pdict \in [imgs : SeqUpTo(ImgBlockPalette, MaxImgBlocks),
                  texts : SeqUpTo(TextBlockPalette, MaxTextBlocks)]
    /\ raster_fallback \in BOOLEAN
    /\ layout_imgs = <<>>
    /\ captions = <<>>
    /\ assigned = {}
    /\ figures = <<>>
    /\ leftovers = <<>>
    /\ ci = 1
    /\ li = 1
    /\ raster_calls = <<>>
    /\ fstats = None
    /\ pc = "collect"

\* steps 1 and 2
Collect ==
    /\ pc = "collect"
    /\ layout_imgs' = CollectLayoutImgs(pdict.imgs)
    /\ captions' = CollectCaptions(pdict.texts)
    /\ pc' = "captions"
    /\ UNCHANGED <<pdict, raster_fallback, assigned, figures, leftovers, ci, li,
                   raster_calls, fstats>>

\* step 3, one iteration of "for cap in captions"
GroupCaption(rasterOk) ==
    /\ pc = "captions"
    /\ ci <= Len(captions)
    /\ LET cap  == captions[ci]
           cand == cand_idxs(cap, layout_imgs, assigned)
       IN  IF cand = <<>>
           THEN UNCHANGED <<figures, assigned, raster_calls>>
           ELSE LET ubox == union_bbox(cand, layout_imgs)
                    rf   == RasterFallback(rep_path(cand, layout_imgs), ubox,
                                           <<"fig", Len(figures) + 1>>, rasterOk)
                IN  /\ figures' = Append(figures,
                                     [caption    |-> cap.text,
                                      bbox       |-> ubox,
                                      image_path |-> rf.path,
                                      parts      |-> cand])
                    /\ assigned' = assigned \cup {cand[k] : k \in 1..Len(cand)}
                    /\ raster_calls' = raster_calls \o rf.calls
    /\ ci' = ci + 1
    /\ UNCHANGED <<pdict, raster_fallback, layout_imgs, captions, leftovers, li, fstats, pc>>

\* step 4, the leftovers list
StartLeftovers ==
    /\ pc = "captions"
    /\ ci > Len(captions)
    /\ leftovers' = SelectSeq([k \in 1..Len(layout_imgs) |-> k],
                               LAMBDA i : i \notin assigned)
    /\ pc' = "leftovers"
    /\ UNCHANGED <<pdict, raster_fallback, layout_imgs, captions, assigned, figures,
                   ci, li, raster_calls, fstats>>

\* step 4, one iteration of "for i in leftovers"
EmitLeftover(rasterOk) ==
    /\ pc = "leftovers"
    /\ li <= Len(leftovers)
    /\ LET i  == leftovers[li]
           ib == layout_imgs[i]
           rf == RasterFallback(ib.image_path, ib.bbox, <<"blk", i>>, rasterOk)
       IN  /\ figures' = Append(figures,
                            [caption    |-> None,
                             bbox       |-> ib.bbox,
                             image_path |-> rf.path,
                             parts      |-> <<i>>])
           /\ raster_calls' = raster_calls \o rf.calls
    /\ li' = li + 1
    /\ UNCHANGED <<pdict, raster_fallback, layout_imgs, captions, assigned, leftovers,
                   ci, fstats, pc>>

\* stats and return
FigReturn ==
    /\ pc = "leftovers"
    /\ li > Len(leftovers)
    /\ fstats' = [layout_blocks |-> Len(layout_imgs),
                  figures       |-> Len(figures),
                  with_caption  |-> Cardinality({k \in 1..Len(figures) :
                                                   figures[k].caption # None}),
                  leftovers     |-> Len(leftovers)]
    /\ pc' = "done"
    /\ UNCHANGED <<pdict, raster_fallback, layout_imgs, captions, assigned, figures,
                   leftovers, ci, li, raster_calls>>

-----------------------------------------------------------------------------
(* _areas_from_caption_bbox                                                 *)

\* to_camelot: conversion A (y' = page_h - y) and conversion B (no flip)
to_camelot(a, page_h) ==
    <<  <<a[1], page_h - a[4], a[3], page_h - a[2]>>,
        <<a[1], a[2], a[3], a[4]>>  >>

_areas_from_caption_bbox(cbx, page_w, page_h, pad) ==
    LET above == <<0 + pad, 0 + pad, page_w - pad, Max(0, cbx[2] - pad)>>
        below == <<0 + pad, Min(page_h, cbx[4] + pad), page_w - pad, page_h - pad>>
        AB1   == to_camelot(above, page_h)
        AB2   == to_camelot(below, page_h)
    IN  <<AB1[1], AB1[2], AB2[1], AB2[2]>>

\* Inputs of the stand-alone runs of _areas_from_caption_bbox: a caption
\* box of positive size inside the page, a page at least two pads wide and high.
MaxPageSide == 6
MaxPad      == 2

AreaInputs ==
    { in \in [cbx    : {<<x0, y0, x0 + 1, y1>> : x0 \in 0..1, y0 \in 0..MaxPageSide,
                                                 y1 \in 0..MaxPageSide},
              page_w : 2..MaxPageSide,
              page_h : 2..MaxPageSide,
              pad    : 0..MaxPad] :
        /\ in.cbx[2] < in.cbx[4]
        /\ in.cbx[4] <= in.page_h
        /\ in.cbx[3] <= in.page_w
        /\ 2 * in.pad <= in.page_w
        /\ 2 * in.pad <= in.page_h }

AreaInit ==
    /\ a_in \in AreaInputs
    /\ a_out = None
    /\ apc = "call"

AreasCall ==
    /\ apc = "call"
    /\ a_out' = _areas_from_caption_bbox(a_in.cbx, a_in.page_w, a_in.page_h, a_in.pad)
    /\ apc' = "done"
    /\ UNCHANGED a_in

-----------------------------------------------------------------------------
(* extract_tables_for_page                                                  *)

\* pad=6 of the call of _areas_from_caption_bbox, and inset = 6
CaptionPad == 6
inset      == 6

\* "Table 1."
Txt_Table1  == <<84, 97, 98, 108, 101, 32, 49, 46>>
\* "tab.", U+2003 (em space), "\r", U+0662 (Arabic-Indic two)
Txt_tab2    == <<116, 97, 98, 46, 8195, 13, 1634>>
\* " Table 4"
Txt_sTable4 == <<32, 84, 97, 98, 108, 101, 32, 52>>
\* "Tables 5"
Txt_Tables  == <<84, 97, 98, 108, 101, 115, 32, 53>>

\* Text blocks a page may hold (page_texts entries).
PageTextPalette ==
    { [text |-> Txt_Table1,  bbox |-> <<5, 20, 35, 24>>],
      [text |-> Txt_tab2,    bbox |-> <<5, 4, 35, 8>>],
      [text |-> Txt_sTable4, bbox |-> <<5, 30, 35, 34>>],
      [text |-> Txt_Tables,  bbox |-> <<5, 10, 35, 14>>] }

\* page is None, or a page with rect.width, rect.height
PageDimsPalette == {None, <<40, 60>>}

MaxPageTexts == 2
MaxCands     == 2

\* A table the engine may return: shape (nrows, ncols) and the cell grid df.
\* Every cell is "a"; with digit the last cell is "x7".
Cand(r, c, digit) ==
    [nrows |-> r, ncols |-> c,
     df    |-> [i \in 1..r |-> [j \in 1..c |->
                   IF digit /\ i = r /\ j = c THEN <<120, 55>> ELSE <<97>>]]]

\* A 2x2 table whose only digit-like character is the superscript two of
\* its first cell "R" U+00B2.
CandSuperscript == [Cand(2, 2, FALSE) EXCEPT !.df[1][1] = <<82, 178>>]

CandPalette ==
    {Cand(1, 2, TRUE), Cand(2, 1, TRUE), CandSuperscript, Cand(2, 2, FALSE), Cand(3, 2, TRUE)}

\* The TableLists camelot.read_pdf may return on one attempt.
EngineResults == SeqUpTo(CandPalette, MaxCands)

RECURSIVE Join(_, _)
\* sep.join(parts)
Join(parts, sep) ==
    IF parts = <<>> THEN <<>>
    ELSE IF Len(parts) = 1 THEN parts[1]
         ELSE parts[1] \o sep \o Join(Tail(parts), sep)

\* content = "\n".join(" ".join(r) for r in t.df.values.tolist())
Content(t) == Join([i \in 1..t.nrows |-> Join(t.df[i], <<32>>)], <<10>>)

\* any(ch.isdigit() for ch in content)
HasDigit(content) == \E k \in 1..Len(content) : content[k] \in IsDigitChars

\* the checks without the digit test
PassesChecks_shape_only(t) == ~(t.nrows < 2 \/ t.ncols < 2)

\* light semantic checks
PassesChecks(t) ==
    /\ ~(t.nrows < 2 \/ t.ncols < 2)
    /\ HasDigit(Content(t))

\* values of stats["error"]; NoError stands for None
NoError     == "None"
ErrEngine   == "Camelot failed/skipped: engine exception"
ErrCsv      == "Camelot failed/skipped: to_csv exception"
ErrNoTables == "no tables detected on this page"

RECURSIVE ProcessCands(_, _, _, _, _, _)
\* for i, t in enumerate(t_all, start=1): ...   (to_csv raises on candidate
\* csvFailAt if it is called there, and the loop is left; 0: it never raises)
ProcessCands(i, t_all, csvFailAt, flavor, doSave, acc) ==
    IF i > Len(t_all) THEN acc
    ELSE LET t == t_all[i]
         IN  IF ~PassesChecks(t)
             THEN ProcessCands(i + 1, t_all, csvFailAt, flavor, doSave, acc)
             ELSE IF doSave /\ csvFailAt = i
                  THEN [acc EXCEPT !.raised = TRUE,
                                   !.csv = Append(@, [index |-> i, ok |-> FALSE])]
                  ELSE ProcessCands(i + 1, t_all, csvFailAt, flavor, doSave,
                         [tables    |-> Append(acc.tables,
                                          [index |-> i, engine |-> "camelot",
                                           flavor |-> flavor,
                                           nrows |-> t.nrows, ncols |-> t.ncols,
                                           csv_path |-> IF doSave THEN <<"csv", i, flavor>>
                                                        ELSE None]),
                          saved_csv |-> acc.saved_csv + (IF doSave THEN 1 ELSE 0),
                          accepted  |-> acc.accepted + 1,
                          raised    |-> FALSE,
                          csv       |-> IF doSave
                                        THEN Append(acc.csv, [index |-> i, ok |-> TRUE])
                                        ELSE acc.csv])

\* the LAST matching caption instead of the first
LastCaption(texts) ==
    LET hits == SelectSeq(texts, LAMBDA t : CAPTION_RE(t.text))
    IN  IF hits = <<>> THEN None ELSE hits[Len(hits)]

\* pick the FIRST "Table N." caption on this page, if any
FirstCaption(texts) ==
    LET hits == SelectSeq(texts, LAMBDA t : CAPTION_RE(t.text))
    IN  IF hits = <<>> THEN None ELSE hits[1]

\* lattice then stream on one area
FlavorPair(kind, area) ==
    << [flavor |-> "lattice", kind |-> kind, area |-> area],
       [flavor |-> "stream",  kind |-> kind, area |-> area] >>

\* the attempts list built before the loop
BuildAttempts(texts, dims) ==
    LET caption == FirstCaption(texts)
        hasDims == dims # None /\ dims[1] # 0 /\ dims[2] # 0
        page_w  == dims[1]
        page_h  == dims[2]
        areas   == _areas_from_caption_bbox(caption.bbox, page_w, page_h, CaptionPad)
        anchored == IF caption # None /\ hasDims
                    THEN FlavorPair("area", areas[1]) \o FlavorPair("area", areas[2])
                         \o FlavorPair("area", areas[3]) \o FlavorPair("area", areas[4])
                    ELSE <<>>
        fullA   == <<inset, inset, page_w - inset, page_h - inset>>
        fullB   == <<inset, page_h - inset, page_w - inset, inset>>
        rest    == IF hasDims
                   THEN FlavorPair("full", fullA) \o FlavorPair("full", fullB)
                   ELSE FlavorPair("no-area", None)
    IN  anchored \o rest

\* the final test without "and not stats['error']"
Finalize_overwriting(st) ==
    IF st.found = 0 THEN [st EXCEPT !.error = ErrNoTables] ELSE st

\* if stats["found"] == 0 and not stats["error"]: ...
Finalize(st) ==
    IF st.found = 0 /\ st.error = NoError THEN [st EXCEPT !.error = ErrNoTables] ELSE st

NoCall == [raises |-> FALSE, t_all |-> <<>>]

TabInit ==
    /\ page_texts \in SeqUpTo(PageTextPalette, MaxPageTexts)
    /\ page_dims \in PageDimsPalette
    /\ save_csv \in BOOLEAN
    /\ attempts = <<>>
    /\ ai = 1
    /\ tables = <<>>
    /\ stats = [tried |-> <<>>, found |-> 0, saved_csv |-> 0, error |-> NoError]
    /\ engine_calls = <<>>
    /\ ret_call = NoCall
    /\ csv_calls = <<>>
    /\ tpc = "build"

\* caption lookup and attempt list
Build ==
    /\ tpc = "build"
    /\ attempts' = BuildAttempts(page_texts, page_dims)
    /\ tpc' = "loop"
    /\ UNCHANGED <<page_texts, page_dims, save_csv, ai, tables, stats, engine_calls,
                   ret_call, csv_calls>>

\* after an attempt without acceptance: next attempt, or fall out of the loop
Continue(st) ==
    IF ai = Len(attempts)
    THEN stats' = Finalize(st) /\ tpc' = "done" /\ ai' = ai + 1
    ELSE stats' = st /\ tpc' = "loop" /\ ai' = ai + 1

\* one iteration of the attempt loop in which camelot.read_pdf raises
AttemptRaises ==
    /\ tpc = "loop"
    /\ ai <= Len(attempts)
    /\ engine_calls' = Append(engine_calls, ai)
    /\ stats' = Finalize([stats EXCEPT !.tried = Append(@, attempts[ai]),
                                       !.error = ErrEngine])
    /\ tpc' = "done"
    /\ ret_call' = [raises |-> TRUE, t_all |-> <<>>]
    /\ UNCHANGED <<page_texts, page_dims, save_csv, attempts, ai, tables, csv_calls>>

\* one iteration of the attempt loop in which camelot.read_pdf returns t_all
AttemptReturns(t_all, csvFailAt) ==
    /\ tpc = "loop"
    /\ ai <= Len(attempts)
    /\ engine_calls' = Append(engine_calls, ai)
    /\ LET st1 == [stats EXCEPT !.tried = Append(@, attempts[ai])]
           p   == ProcessCands(1, t_all, csvFailAt, attempts[ai].flavor, save_csv,
                               [tables |-> tables, saved_csv |-> st1.saved_csv,
                                accepted |-> 0, raised |-> FALSE, csv |-> csv_calls])
       IN  IF Len(t_all) = 0
           THEN /\ Continue(st1)
                /\ ret_call' = IF ai = Len(attempts)
                               THEN [raises |-> FALSE, t_all |-> t_all] ELSE ret_call
                /\ UNCHANGED <<tables, csv_calls>>
           ELSE /\ tables' = p.tables
                /\ ret_call' = IF p.raised \/ p.accepted # 0 \/ ai = Len(attempts)
                               THEN [raises |-> FALSE, t_all |-> t_all] ELSE ret_call
                /\ csv_calls' = p.csv
                /\ IF p.raised
                   THEN /\ stats' = Finalize([st1 EXCEPT !.saved_csv = p.saved_csv,
                                                         !.error = ErrCsv])
                        /\ tpc' = "done"
                        /\ ai' = ai
                   ELSE IF p.accepted # 0
                        THEN /\ stats' = Finalize([st1 EXCEPT !.saved_csv = p.saved_csv,
                                                              !.found = @ + p.accepted])
                             /\ tpc' = "done"
                             /\ ai' = ai
                        ELSE Continue([st1 EXCEPT !.saved_csv = p.saved_csv])
    /\ UNCHANGED <<page_texts, page_dims, save_csv, attempts>>

-----------------------------------------------------------------------------
(* Specifications                                                           *)

FigIdle ==
    /\ pdict = [imgs |-> <<>>, texts |-> <<>>] /\ raster_fallback = TRUE
    /\ layout_imgs = <<>> /\ captions = <<>> /\ assigned = {} /\ figures = <<>>
    /\ leftovers = <<>> /\ ci = 1 /\ li = 1 /\ raster_calls = <<>> /\ fstats = None
    /\ pc = "idle"

TabIdle ==
    /\ page_texts = <<>> /\ page_dims = None /\ save_csv = TRUE /\ attempts = <<>>
    /\ ai = 1 /\ tables = <<>>
    /\ stats = [tried |-> <<>>, found |-> 0, saved_csv |-> 0, error |-> NoError]
    /\ engine_calls = <<>> /\ ret_call = NoCall /\ csv_calls = <<>> /\ tpc = "idle"

AreaIdle ==
    /\ a_in = None /\ a_out = None /\ apc = "idle"

\* extract_image_blocks on one page
InitFig == FigInit /\ TabIdle /\ AreaIdle
NextFig ==
    \/ Collect /\ UNCHANGED <<tabVars, areaVars>>
    \/ (\E ok \in BOOLEAN : GroupCaption(ok)) /\ UNCHANGED <<tabVars, areaVars>>
    \/ StartLeftovers /\ UNCHANGED <<tabVars, areaVars>>
    \/ (\E ok \in BOOLEAN : EmitLeftover(ok)) /\ UNCHANGED <<tabVars, areaVars>>
    \/ FigReturn /\ UNCHANGED <<tabVars, areaVars>>
SpecFig == InitFig /\ [][NextFig]_vars

\* extract_tables_for_page on one page
InitTab == TabInit /\ FigIdle /\ AreaIdle
NextTab ==
    \/ Build /\ UNCHANGED <<figVars, areaVars>>
    \/ AttemptRaises /\ UNCHANGED <<figVars, areaVars>>
    \/ (\E t_all \in EngineResults : \E csvFailAt \in 0..Len(t_all) :
            AttemptReturns(t_all, csvFailAt)) /\ UNCHANGED <<figVars, areaVars>>
SpecTab == InitTab /\ [][NextTab]_vars

\* _areas_from_caption_bbox on one input
InitAreas == AreaInit /\ FigIdle /\ TabIdle
NextAreas == AreasCall /\ UNCHANGED <<figVars, tabVars>>
SpecAreas == InitAreas /\ [][NextAreas]_vars

-----------------------------------------------------------------------------
(* Properties of extract_image_blocks (SpecFig)                             *)

FigIdx == 1..Len(figures)
PartsOf(k) == {figures[k].parts[j] : j \in 1..Len(figures[k].parts)}

\* C1: every collected layout image block is in the parts list of exactly one
\* returned Figure: no block is ever listed twice (in two Figures or twice in
\* one), and on return no block is missing.
C1_Partition ==
    /\ \A k1, k2 \in FigIdx :
         \A j1 \in 1..Len(figures[k1].parts), j2 \in 1..Len(figures[k2].parts) :
            figures[k1].parts[j1] = figures[k2].parts[j2] => (k1 = k2 /\ j1 = j2)
    /\ \A k \in FigIdx : PartsOf(k) \subseteq 1..Len(layout_imgs)
    /\ pc = "done" => \A i \in 1..Len(layout_imgs) : \E k \in FigIdx : i \in PartsOf(k)

\* C1 witness: a returned page with two blocks, one grouped under a caption
\* and one emitted as a leftover.
C1_Witness ==
    /\ pc = "done"
    /\ Len(layout_imgs) = 2
    /\ \E k \in FigIdx : figures[k].caption # None
    /\ \E k \in FigIdx : figures[k].caption = None

\* The four tests of the claim, on bounding boxes b (block) and c (caption).
ClaimQualifies(b, c) ==
    LET capw == c[3] - c[1]
        imgw == b[3] - b[1]
        ovl  == Max(0, Min(b[3], c[3]) - Max(b[1], c[1]))
        gap  == c[2] - b[4]
    IN  /\ b[4] <= c[2]
        /\ ovl * 100 >= MinCapOverlapPct * capw
        /\ gap >= 0 /\ gap <= max_v_gap
        /\ Abs(imgw - capw) * 100 <= WidthTolPct * capw

AssignedEarlier == UNION {PartsOf(k) : k \in FigIdx}

ExpectedParts(cap) ==
    SelectSeq([i \in 1..Len(layout_imgs) |-> i],
              LAMBDA i : i \notin AssignedEarlier
                         /\ ClaimQualifies(layout_imgs[i].bbox, cap.bbox))

\* C5: each iteration of the caption loop emits, for caption c, exactly the
\* blocks in scan order that no earlier caption took and that pass the four
\* tests against c; it emits nothing when there is no such block.
C5_GreedyFirstCaptionWins ==
    [][ (pc = "captions" /\ ci' = ci + 1) =>
          LET exp == ExpectedParts(captions[ci])
          IN  IF exp = <<>>
              THEN figures' = figures
              ELSE /\ Len(figures') = Len(figures) + 1
                   /\ SubSeq(figures', 1, Len(figures)) = figures
                   /\ figures'[Len(figures')].parts = exp
                   /\ figures'[Len(figures')].caption = captions[ci].text ]_vars

\* C5 witness: a block that qualifies for both captions went to the first.
C5_Witness ==
    /\ pc = "done"
    /\ Len(captions) = 2
    /\ \E i \in 1..Len(layout_imgs) :
          /\ ClaimQualifies(layout_imgs[i].bbox, captions[1].bbox)
          /\ ClaimQualifies(layout_imgs[i].bbox, captions[2].bbox)
          /\ figures # <<>>
          /\ figures[1].caption = captions[1].text
          /\ i \in PartsOf(1)

\* the asset of the first part, in scan order, that has one
FirstAsset(k) ==
    LET has == {j \in 1..Len(figures[k].parts) :
                   layout_imgs[figures[k].parts[j]].image_path # None}
        j0  == CHOOSE j \in has : \A j2 \in has : j <= j2
    IN  IF has = {} THEN None ELSE layout_imgs[figures[k].parts[j0]].image_path

\* the file a rasterization for figure k is written to
RasterOut(k) ==
    IF figures[k].caption # None THEN <<"fig", k>> ELSE <<"blk", figures[k].parts[1]>>

CallsFor(k) == {n \in 1..Len(raster_calls) : raster_calls[n].out = RasterOut(k)}

\* C9: a Figure's image_path is the asset of its first part that has one, and
\* then nothing is rasterized for it; otherwise it is the raster output when
\* the single rasterization succeeded and unset when it failed or was not
\* made; every rasterization, failed or not, belongs to an emitted Figure and
\* the run still covers every block on return.
C9_RepresentativePath ==
    /\ \A k \in FigIdx :
         /\ figures[k].parts # <<>>
         /\ FirstAsset(k) # None =>
               figures[k].image_path = FirstAsset(k) /\ CallsFor(k) = {}
         /\ FirstAsset(k) = None =>
               /\ Cardinality(CallsFor(k)) <= 1
               /\ CallsFor(k) = {} => figures[k].image_path = None
               /\ \A n \in CallsFor(k) :
                     figures[k].image_path =
                        IF raster_calls[n].ok THEN raster_calls[n].out ELSE None
    /\ \A n \in 1..Len(raster_calls) : \E k \in FigIdx : n \in CallsFor(k)
    /\ pc = "done" =>
         Len(figures) >= Cardinality({k \in FigIdx : figures[k].caption # None})
                         + Len(leftovers)

\* C9 witness: on return, a captioned Figure whose rasterization failed and a
\* leftover Figure after it.
C9_Witness ==
    /\ pc = "done"
    /\ \E k \in FigIdx :
          /\ figures[k].caption # None
          /\ figures[k].image_path = None
          /\ \E n \in CallsFor(k) : ~raster_calls[n].ok
          /\ \E k2 \in FigIdx : k2 > k /\ figures[k2].caption = None

\* a box without positive area once clipped to the page
Degenerate(bb) ==
    \/ Min(bb[3], PageW) - Max(bb[1], 0) <= 0
    \/ Min(bb[4], PageH) - Max(bb[2], 0) <= 0

\* C10: nothing is rasterized for a Figure whose box has no positive area
\* after clipping to the page (its image_path stays unset unless a part has
\* an asset), and every rasterized rectangle lies within the page with
\* positive width and height (rectangles are in half units).
C10_DegenerateSkipped ==
    /\ \A k \in FigIdx :
         Degenerate(figures[k].bbox) =>
            /\ CallsFor(k) = {}
            /\ FirstAsset(k) = None => figures[k].image_path = None
    /\ \A n \in 1..Len(raster_calls) :
         LET r == raster_calls[n].rect
         IN  /\ 0 <= r[1] /\ r[1] < r[3] /\ r[3] <= 2 * PageW
             /\ 0 <= r[2] /\ r[2] < r[4] /\ r[4] <= 2 * PageH

\* C10 witness: with the raster fallback on, an off-page leftover was emitted
\* without rasterization next to a Figure that was rasterized.
C10_Witness ==
    /\ pc = "done"
    /\ raster_fallback
    /\ \E k \in FigIdx : Degenerate(figures[k].bbox) /\ figures[k].image_path = None
    /\ raster_calls # <<>>

-----------------------------------------------------------------------------
(* Properties of extract_tables_for_page (SpecTab)                          *)

LastCall == engine_calls[Len(engine_calls)]

\* the three acceptance tests of the claim, on an engine candidate
ClaimAccepts(t) ==
    /\ t.nrows >= 2
    /\ t.ncols >= 2
    /\ \E i \in 1..t.nrows : \E j \in 1..t.ncols : \E k \in 1..Len(t.df[i][j]) :
          t.df[i][j][k] \in IsDigitChars

\* C2: every TableRecord comes from a candidate of the engine's TableList
\* that has at least 2 rows, at least 2 columns and a digit in its cell text,
\* and carries that candidate's shape.
C2_Acceptance ==
    \A n \in 1..Len(tables) :
        /\ ~ret_call.raises
        /\ tables[n].index \in 1..Len(ret_call.t_all)
        /\ LET t == ret_call.t_all[tables[n].index]
           IN  /\ ClaimAccepts(t)
               /\ tables[n].nrows = t.nrows
               /\ tables[n].ncols = t.ncols

\* C2 witness: the engine returned two candidates, one was recorded and the
\* other, failing a test, was not.
C2_Witness ==
    /\ tpc = "done"
    /\ Len(ret_call.t_all) = 2
    /\ Len(tables) = 1
    /\ \E i \in 1..2 : ~ClaimAccepts(ret_call.t_all[i])

\* C3 (as claimed): attempts run in list order and are logged in tried; while
\* the loop runs nothing has been accepted; all records come from the last
\* attempt made; and when the first attempt returns exactly one 3x2 grid with
\* a digit, the engine was invoked once and stats.found = 1.
C3_FirstSuccessStop ==
    /\ \A k \in 1..Len(engine_calls) : engine_calls[k] = k
    /\ stats.tried = [k \in 1..Len(engine_calls) |-> attempts[k]]
    /\ tpc = "loop" => tables = <<>> /\ stats.found = 0
    /\ tables # <<>> =>
         /\ tpc = "done"
         /\ \A n \in 1..Len(tables) :
               /\ tables[n].flavor = attempts[LastCall].flavor
               /\ tables[n].index \in 1..Len(ret_call.t_all)
    /\ (tpc = "done" /\ engine_calls = <<1>> /\ ~ret_call.raises
        /\ ret_call.t_all = <<Cand(3, 2, TRUE)>>)
         => stats.found = 1 /\ Len(tables) = 1

\* C4: when the engine raises, the function has returned with an empty table
\* list and an exception diagnostic other than the no-tables one, the raising
\* attempt being the last one tried; the no-tables diagnostic is recorded
\* exactly when all attempts ran, nothing raised and nothing was accepted.
C4_EngineFailure ==
    /\ ret_call.raises =>
         /\ tpc = "done"
         /\ tables = <<>>
         /\ stats.error \notin {NoError, "", ErrNoTables}
         /\ stats.tried[Len(stats.tried)] = attempts[LastCall]
         /\ Len(stats.tried) = Len(engine_calls)
    /\ stats.error = ErrNoTables <=>
         /\ tpc = "done"
         /\ Len(engine_calls) = Len(attempts)
         /\ ~ret_call.raises
         /\ \A n \in 1..Len(csv_calls) : csv_calls[n].ok
         /\ tables = <<>>

\* C4 witness: the engine raised on an attempt after the first.
C4_Witness ==
    /\ ret_call.raises
    /\ Len(engine_calls) >= 2

MatchingTexts == {k \in 1..Len(page_texts) : CAPTION_RE(page_texts[k].text)}
FirstMatching == CHOOSE k \in MatchingTexts : \A k2 \in MatchingTexts : k <= k2

\* the 4 full-page attempts at positions off+1 .. off+4
FullPageAttempts(off) ==
    LET w == page_dims[1]
        h == page_dims[2]
        A == <<inset, inset, w - inset, h - inset>>
        B == <<inset, h - inset, w - inset, inset>>
    IN  /\ attempts[off + 1] = [flavor |-> "lattice", kind |-> "full", area |-> A]
        /\ attempts[off + 2] = [flavor |-> "stream",  kind |-> "full", area |-> A]
        /\ attempts[off + 3] = [flavor |-> "lattice", kind |-> "full", area |-> B]
        /\ attempts[off + 4] = [flavor |-> "stream",  kind |-> "full", area |-> B]

\* C6: with a table caption and page dimensions the list is the 8
\* caption-anchored attempts (lattice then stream per rectangle of
\* _areas_from_caption_bbox of the first matching text block) followed by the
\* 4 full-page attempts; with dimensions only, the 4 full-page attempts;
\* without dimensions, lattice and stream without area.
C6_AttemptList ==
    tpc \in {"loop", "done"} =>
        IF page_dims = None
        THEN attempts = << [flavor |-> "lattice", kind |-> "no-area", area |-> None],
                           [flavor |-> "stream",  kind |-> "no-area", area |-> None] >>
        ELSE IF MatchingTexts = {}
             THEN Len(attempts) = 4 /\ FullPageAttempts(0)
             ELSE LET areas == _areas_from_caption_bbox(page_texts[FirstMatching].bbox,
                                                        page_dims[1], page_dims[2], 6)
                  IN  /\ Len(attempts) = 12
                      /\ \A k \in 1..4 :
                            /\ attempts[2 * k - 1] =
                                  [flavor |-> "lattice", kind |-> "area", area |-> areas[k]]
                            /\ attempts[2 * k] =
                                  [flavor |-> "stream", kind |-> "area", area |-> areas[k]]
                      /\ FullPageAttempts(8)

\* C6 witness: a page with dimensions and two different table captions.
C6_Witness ==
    /\ tpc = "loop"
    /\ page_dims # None
    /\ Cardinality(MatchingTexts) = 2
    /\ \E k \in MatchingTexts : page_texts[k].bbox # page_texts[FirstMatching].bbox
    /\ Len(attempts) = 12

\* C8 (as claimed): when a to_csv call fails, the table it was serializing is
\* still recorded, with csv_path absent, every other accepted candidate of
\* the attempt is recorded too, and table extraction is not aborted.
C8_CsvFailureIsolated ==
    tpc = "done" =>
        \A n \in 1..Len(csv_calls) :
            ~csv_calls[n].ok =>
                /\ \E m \in 1..Len(tables) :
                      tables[m].index = csv_calls[n].index /\ tables[m].csv_path = None
                /\ \A i \in 1..Len(ret_call.t_all) :
                      ClaimAccepts(ret_call.t_all[i]) =>
                         \E m \in 1..Len(tables) : tables[m].index = i
                /\ stats.error \notin {ErrCsv, ErrEngine}

\* the returned TableRecords whose csv_path is set
WithCsvPath == {n \in 1..Len(tables) : tables[n].csv_path # None}

\* C11 (as claimed): on every return of extract_tables_for_page, stats.found
\* is the number of returned TableRecords and stats.saved_csv is the number
\* of returned TableRecords whose csv_path is set.
C11_StatsAgreeWithTables ==
    tpc = "done" =>
        /\ stats.found = Len(tables)
        /\ stats.saved_csv = Cardinality(WithCsvPath)

-----------------------------------------------------------------------------
(* Properties of _areas_from_caption_bbox (SpecAreas)                       *)

Flipped(r, page_h) == <<r[1], page_h - r[4], r[3], page_h - r[2]>>

ValidOnPage(r, page_w, page_h) ==
    /\ 0 <= r[1] /\ r[1] <= r[3] /\ r[3] <= page_w
    /\ 0 <= r[2] /\ r[2] <= r[4] /\ r[4] <= page_h

\* C7 (as claimed): 4 rectangles, the first the flipped form of the second
\* (the region above the caption) and the third the flipped form of the
\* fourth (the region below it), each within [0, page_w] x [0, page_h] with
\* x0 <= x1 and y0 <= y1.
C7_AreasClipped ==
    apc = "done" =>
        /\ Len(a_out) = 4
        /\ a_out[1] = Flipped(a_out[2], a_in.page_h)
        /\ a_out[3] = Flipped(a_out[4], a_in.page_h)
        /\ a_out[2][4] <= a_in.cbx[2]
        /\ a_out[4][2] >= a_in.cbx[4]
        /\ \A k \in 1..4 : ValidOnPage(a_out[k], a_in.page_w, a_in.page_h)

====
